---- MODULE Spec2Model ----
(***************************************************************************)
(* Model of the neuro-galaxy backend:                                      *)
(*   backend/services/galaxy_brain.py  GalaxyRenderer (embed, K-means,     *)
(*                                     UMAP, LLM cluster naming)           *)
(*   backend/api/routes.py             the three handlers and the JSON     *)
(*                                     note store                          *)
(*                                                                         *)
(* Four specifications share the module:                                   *)
(*   Spec       one process_notes call at a time on one GalaxyRenderer     *)
(*   SpecParse  the response -> cluster-name conversion of _name_clusters  *)
(*   SpecRoutes the handlers of routes.py over the note store              *)
(*   SpecConc   two threads inside process_notes on the shared instance    *)
(*                                                                         *)
(* Strings that the code takes apart (LLM responses, cluster names) are    *)
(* sequences of one-character strings. Note texts are opaque strings.      *)
(***************************************************************************)
EXTENDS Integers, Sequences, FiniteSets, TLC

VARIABLES
    \* ---- GalaxyRenderer instance (self) ----
    groq_client,     \* self.groq_client: None or "Groq"
    kmeans,          \* self.kmeans: Nil or the last KMeans object (a reference in SpecConc)
    umap_reducer,    \* self.umap_reducer: Nil or the last UMAP object (a reference in SpecConc)
    construction,    \* how __init__ went: <<GROQ_API_KEY set, Groq() succeeded>>
    \* ---- the running process_notes call (Spec, SpecRoutes) ----
    pc,              \* position inside the call
    handler,         \* who called: "direct", "process", "get_nodes", "add_notes"
    notes,           \* the argument
    embeddings,      \* local embeddings
    cluster_labels,  \* local cluster_labels
    coords_3d,       \* local coords_3d
    cluster_names,   \* local cluster_names
    result,          \* the returned dict, or Nil
    raised,          \* the exception that left process_notes, or None
    log,             \* components invoked by this call, in order
    llm,             \* outcome of the external call made for each cluster id
    \* ---- routes.py ----
    file,            \* NOTES_FILE on disk
    request,         \* request.notes of the running handler
    existing,        \* what load_notes returned to the running add_notes
    saved,           \* whether save_notes completed in the running add_notes
    http,            \* the HTTP answer of the running handler
    posted,          \* the notes accepted by POST /notes so far, in order
    \* ---- response parsing (SpecParse) ----
    ppc, response, cluster_id, category,
    \* ---- two threads in process_notes (SpecConc) ----
    tpc, tloc, heap

selfVars  == <<groq_client, kmeans, umap_reducer, construction>>
frameVars == <<pc, handler, notes, embeddings, cluster_labels, coords_3d,
               cluster_names, result, raised, log, llm>>
routeVars == <<file, request, existing, saved, http, posted>>
parseVars == <<ppc, response, cluster_id, category>>
concVars  == <<tpc, tloc, heap>>
vars == <<selfVars, frameVars, routeVars, parseVars, concVars>>

None == "None"           \* Python's None where a string is expected
Nil == [nil |-> TRUE]     \* Python's None where an object or a dict is expected

\* ------------------------------------------------------------------------
\* Bounds of the model
\* ------------------------------------------------------------------------
MaxNotes == 5       \* longest note list handed to process_notes directly
MaxLen == 4         \* longest LLM response text, in characters
MaxStore == 5       \* longest note list kept in NOTES_FILE
MaxReq == 2         \* longest request.notes of a route handler
MaxCalls == 1       \* calls each thread makes in SpecConc

\* ------------------------------------------------------------------------
\* Program constants
\* ------------------------------------------------------------------------
n_clusters == 5     \* GalaxyRenderer.__init__(n_clusters=5)
SampleMax == 3      \* min(3, len(cluster_notes))
NeighborsMax == 10  \* min(10, len(notes) - 1)
NameWords == 2      \* category_name.split()[:2]

ClusterIds == 0 .. (n_clusters - 1)
NoteTexts == {"n1", "n2"}

RECURSIVE SeqsUpTo(_, _)
SeqsUpTo(S, n) ==
    IF n = 0 THEN {<<>>}
    ELSE LET shorter == SeqsUpTo(S, n - 1)
         IN shorter \cup {Append(s, x) : s \in {t \in shorter : Len(t) = n - 1}, x \in S}

Range(f) == {f[x] : x \in DOMAIN f}

\* ------------------------------------------------------------------------
\* Python string operations used by _name_clusters
\* ------------------------------------------------------------------------
Chars == {"a", "b", " ", "\n"}

\* str.strip() and str.split() treat these as whitespace
IsSpace(c) == c \in {" ", "\n", "\t", "\r"}

RECURSIVE LStrip(_)
LStrip(s) == IF s # <<>> /\ IsSpace(Head(s)) THEN LStrip(Tail(s)) ELSE s

RECURSIVE RStrip(_)
RStrip(s) ==
    IF s # <<>> /\ IsSpace(s[Len(s)]) THEN RStrip(SubSeq(s, 1, Len(s) - 1)) ELSE s

\* s.strip()
Strip(s) == RStrip(LStrip(s))

\* s.split('\n')[0]: the text before the first line feed
RECURSIVE FirstLine(_)
FirstLine(s) ==
    IF s = <<>> \/ Head(s) = "\n" THEN <<>> ELSE <<Head(s)>> \o FirstLine(Tail(s))

\* the leading run of non-whitespace characters of s
RECURSIVE Word(_)
Word(s) ==
    IF s = <<>> \/ IsSpace(Head(s)) THEN <<>> ELSE <<Head(s)>> \o Word(Tail(s))

\* s.split(): the maximal runs of non-whitespace characters, in order
RECURSIVE Split(_)
Split(s) ==
    LET t == LStrip(s)
    IN IF t = <<>> THEN <<>>
       ELSE LET w == Word(t)
            IN <<w>> \o Split(SubSeq(t, Len(w) + 1, Len(t)))

\* " ".join(words)
RECURSIVE Join(_)
Join(words) ==
    IF words = <<>> THEN <<>>
    ELSE IF Len(words) = 1 THEN words[1]
    ELSE words[1] \o <<" ">> \o Join(Tail(words))

\* xs[:n]
Take(xs, n) == SubSeq(xs, 1, IF Len(xs) < n THEN Len(xs) ELSE n)

DigitChar == <<"0", "1", "2", "3", "4", "5", "6", "7", "8", "9">>

\* str(n) for n >= 0
RECURSIVE Digits(_)
Digits(n) ==
    IF n < 10 THEN <<DigitChar[n + 1]>>
    ELSE Digits(n \div 10) \o <<DigitChar[(n % 10) + 1]>>

\* f"Category {cluster_id}"
Generic(id) == <<"C", "a", "t", "e", "g", "o", "r", "y", " ">> \o Digits(id)

\* A mutant of ParseName: the response's first token only, whatever follows.
ParseNameFirstToken(content) ==
    LET category_name == Strip(FirstLine(Strip(content)))
    IN IF Split(category_name) = <<>>
       THEN [ok |-> FALSE, name |-> <<>>]
       ELSE [ok |-> TRUE, name |-> Split(category_name)[1]]

\* Lines 94-97: content.strip().split('\n')[0].strip(), then the first two
\* words joined, else the first word; split()[0] of a text without a word
\* raises IndexError (ok = FALSE).
ParseName(content) ==
    LET category_name == Strip(FirstLine(Strip(content)))
        words == Take(Split(category_name), NameWords)
    IN IF Len(words) = NameWords
       THEN [ok |-> TRUE, name |-> Join(words)]
       ELSE IF Split(category_name) = <<>>
            THEN [ok |-> FALSE, name |-> <<>>]
            ELSE [ok |-> TRUE, name |-> Split(category_name)[1]]

\* What one chat.completions.create call can do: raise, return no choice,
\* return a message without content, or return a text.
Raises      == [kind |-> "raise", content |-> <<>>]
NoChoices   == [kind |-> "no_choices", content |-> <<>>]
NoContent   == [kind |-> "no_content", content |-> <<>>]
Text(t)     == [kind |-> "text", content |-> t]

\* A mutant of NameFromOutcome: the except branch re-raises nothing but
\* stores an empty name instead of the placeholder.
NameFromOutcomeEmpty(id, out) ==
    IF out.kind # "text" THEN <<>>
    ELSE LET p == ParseName(out.content)
         IN IF p.ok THEN p.name ELSE <<>>

\* Lines 79-103: the try body and its except branch for one cluster.
\* choices[0] of an empty list raises IndexError, None.strip() raises
\* AttributeError, split()[0] of no word raises IndexError: all are caught
\* by "except Exception" and give the placeholder.
NameFromOutcome(id, out) ==
    IF out.kind # "text" THEN Generic(id)
    ELSE LET p == ParseName(out.content)
         IN IF p.ok THEN p.name ELSE Generic(id)

\* ------------------------------------------------------------------------
\* SpecParse: the conversion applied to every response text up to MaxLen
\* ------------------------------------------------------------------------
Responses == {Raises, NoChoices, NoContent} \cup {Text(t) : t \in SeqsUpTo(Chars, MaxLen)}

\* The parts of the state a specification does not use stay as they are here.
FrameIdle ==
    /\ pc = "idle" /\ handler = None /\ notes = <<>> /\ embeddings = <<>>
    /\ cluster_labels = <<>> /\ coords_3d = <<>> /\ cluster_names = <<>>
    /\ result = Nil /\ raised = None /\ log = <<>> /\ llm = <<>>
RouteIdle ==
    /\ request = <<>> /\ existing = <<>> /\ saved = FALSE /\ http = Nil
    /\ posted = <<>>
ParseIdle ==
    /\ ppc = "call" /\ response = Nil /\ cluster_id = 0 /\ category = None
ConcIdle ==
    /\ tpc = <<>> /\ tloc = <<>> /\ heap = <<>>

InitParse ==
    /\ groq_client = "Groq" /\ kmeans = Nil /\ umap_reducer = Nil
    /\ construction = <<TRUE, TRUE>>
    /\ FrameIdle
    /\ file = [kind |-> "absent", notes |-> <<>>] /\ RouteIdle
    /\ ParseIdle
    /\ ConcIdle

\* Line 81: the external call for cluster id answers (or fails).
Create(id, out) ==
    /\ ppc = "call"
    /\ ppc' = "parse"
    /\ cluster_id' = id
    /\ response' = out
    /\ category' = None
    /\ UNCHANGED <<selfVars, frameVars, routeVars, concVars>>

\* Lines 94-103: the name stored for the cluster.
Parse ==
    /\ ppc = "parse"
    /\ ppc' = "named"
    /\ category' = NameFromOutcome(cluster_id, response)
    /\ UNCHANGED <<cluster_id, response>>
    /\ UNCHANGED <<selfVars, frameVars, routeVars, concVars>>

\* Line 67: the loop moves on to the next cluster.
NextCluster ==
    /\ ppc = "named"
    /\ ppc' = "call" /\ response' = Nil /\ cluster_id' = 0 /\ category' = None
    /\ UNCHANGED <<selfVars, frameVars, routeVars, concVars>>

NextParse ==
    \/ \E id \in ClusterIds, out \in Responses : Create(id, out)
    \/ Parse
    \/ NextCluster

SpecParse == InitParse /\ [][NextParse]_vars

\* ------------------------------------------------------------------------
\* GalaxyRenderer
\* ------------------------------------------------------------------------

\* Lines 36-45: the client exists only when GROQ_API_KEY is set and Groq()
\* did not raise.
InitGroq(key_present, ctor_ok) ==
    IF key_present THEN (IF ctor_ok THEN "Groq" ELSE None) ELSE None

\* Python dicts with integer keys are functions on a finite set of integers.
EmptyDict == [k \in {} |-> <<>>]
DictSet(d, k, v) == [x \in (DOMAIN d) \cup {k} |-> IF x = k THEN v ELSE d[x]]
DictGet(d, k, default) == IF k \in DOMAIN d THEN d[k] ELSE default

\* sorted(S) for a finite set of integers
RECURSIVE Sorted(_)
Sorted(S) ==
    IF S = {} THEN <<>>
    ELSE LET m == CHOOSE x \in S : \A y \in S : x <= y
         IN <<m>> \o Sorted(S \ {m})

Min(a, b) == IF a < b THEN a ELSE b

\* Line 69: the notes of one cluster, in note order
RECURSIVE ClusterNotes(_, _, _)
ClusterNotes(labels, ns, id) ==
    IF ns = <<>> THEN <<>>
    ELSE (IF Head(labels) = id THEN <<Head(ns)>> ELSE <<>>)
         \o ClusterNotes(Tail(labels), Tail(ns), id)

\* Line 72
SampleSize(labels, ns, id) == Min(SampleMax, Len(ClusterNotes(labels, ns, id)))

\* A log entry: a component invoked by the call. id is the cluster of an
\* external call (-1 otherwise), n the number of texts handed over.
Invoked(op, id, n) == [op |-> op, id |-> id, n |-> n]

\* A mutant of StoreFallback: the except branch stores nothing.
StoreFallbackSkip(names, id, out) ==
    IF out.kind = "text" /\ ParseName(out.content).ok
    THEN DictSet(names, id, NameFromOutcome(id, out))
    ELSE names

\* Lines 97 and 103: cluster_names[cluster_id] = ... in the try body or in
\* the except branch.
StoreFallback(names, id, out) == DictSet(names, id, NameFromOutcome(id, out))

\* Lines 64-105: the loop over sorted(set(cluster_labels)), one external call
\* per cluster; outcomes[id] is what the call for cluster id does.
RECURSIVE NameLoop(_, _, _, _, _)
NameLoop(ids, labels, ns, outcomes, acc) ==
    IF ids = <<>> THEN acc
    ELSE LET id == Head(ids)
         IN NameLoop(Tail(ids), labels, ns, outcomes,
                [names |-> StoreFallback(acc.names, id, outcomes[id]),
                 calls |-> Append(acc.calls,
                                  Invoked("llm", id, SampleSize(labels, ns, id)))])

\* A mutant of NameClusters: without a client the placeholders are built for
\* range(n_clusters) instead of the clusters present.
NameClustersAllIds(client, labels, ns, outcomes) ==
    IF client = None
    THEN [names |-> [id \in ClusterIds |-> Generic(id)], calls |-> <<>>]
    ELSE NameLoop(Sorted(Range(labels)), labels, ns, outcomes,
                  [names |-> EmptyDict, calls |-> <<>>])

\* Lines 47-105: _name_clusters. names is the returned dict, calls the
\* external calls made.
NameClusters(client, labels, ns, outcomes) ==
    IF client = None
    THEN [names |-> [id \in Range(labels) |-> Generic(id)], calls |-> <<>>]
    ELSE NameLoop(Sorted(Range(labels)), labels, ns, outcomes,
                  [names |-> EmptyDict, calls |-> <<>>])

\* Line 121: one vector per note, the same text giving the same vector
Encode(ns) == [i \in DOMAIN ns |-> <<"vec", ns[i]>>]

\* Line 125: sklearn's KMeans.fit refuses fewer samples than clusters
\* ("n_samples=2 should be >= n_clusters=5", a ValueError).
TooFewSamples(n) == n < n_clusters

\* Line 131
NNeighbors(n) == IF n > 1 THEN Min(NeighborsMax, n - 1) ELSE 1

\* Objects kept in self.kmeans and self.umap_reducer; fitted is the number
\* of samples of the last completed fit (0: never fitted).
NewKMeans == [n_clusters |-> n_clusters, fitted |-> 0]
NewUMAP(n) == [n_neighbors |-> NNeighbors(n), fitted |-> 0]

\* Lines 145-156: one node per note, ids from 0 (sequences count from 1)
BuildNodes(ns, labels, coords, names) ==
    [i \in DOMAIN ns |->
        [id |-> i - 1, label |-> ns[i],
         x |-> coords[i][1], y |-> coords[i][2], z |-> coords[i][3],
         category |-> labels[i],
         cluster_label |-> DictGet(names, labels[i], Generic(labels[i]))]]

\* Line 159: {int(k): str(v)}: the same keys and values as native types
CleanNames(names) == [k \in DOMAIN names |-> names[k]]

EmptyResult == [nodes |-> <<>>, cluster_names |-> EmptyDict]

\* A mutant of IsEmpty: the early return is gone.
IsEmptyNever(ns) == FALSE

\* Line 117: "not notes"
IsEmpty(ns) == Len(ns) = 0

\* What the external service answers in Spec: the failures and three texts
\* (none, one and two words).
ServiceAnswers ==
    {Raises, NoChoices, NoContent, Text(<<>>), Text(<<"a">>),
     Text(<<"a", " ", "b", "\n", "a">>)}

\* The layouts UMAP may return: one finite point per note
CoordSeeds == {0, 1}
Layout(n, seed) == [i \in 1 .. n |-> <<seed + i, seed, 0 - i>>]

\* Lines 117-118: entry of process_notes(ns) called by h.
Enter(h, ns) ==
    /\ pc = "idle"
    /\ handler' = h
    /\ notes' = ns
    /\ embeddings' = <<>> /\ cluster_labels' = <<>> /\ coords_3d' = <<>>
    /\ cluster_names' = <<>> /\ raised' = None /\ log' = <<>> /\ llm' = <<>>
    /\ IF IsEmpty(ns)
       THEN pc' = "done" /\ result' = EmptyResult
       ELSE pc' = "encode" /\ result' = Nil
    /\ UNCHANGED selfVars

\* A direct call of GalaxyRenderer.process_notes.
Call(ns) ==
    /\ Enter("direct", ns)
    /\ UNCHANGED <<routeVars, parseVars, concVars>>

\* A mutant of Raise: the failure is caught, kept, and the call carries on
\* with the naming step.
RaiseSwallowed(e) ==
    /\ pc' = "name"
    /\ raised' = e
    /\ result' = Nil

\* An exception leaves process_notes: nothing catches it inside.
Raise(e) ==
    /\ pc' = "done"
    /\ raised' = e
    /\ result' = Nil

\* Line 121: self.model.encode(notes)
EncodeStep ==
    /\ pc = "encode"
    /\ log' = Append(log, Invoked("embedder", -1, Len(notes)))
    /\ \E ok \in BOOLEAN :
         IF ok
         THEN /\ embeddings' = Encode(notes)
              /\ pc' = "kmeans"
              /\ UNCHANGED <<raised, result>>
         ELSE /\ Raise("EmbeddingError")
              /\ UNCHANGED embeddings
    /\ UNCHANGED <<handler, notes, cluster_labels, coords_3d, cluster_names, llm>>
    /\ UNCHANGED <<selfVars, routeVars, parseVars, concVars>>

\* Lines 124-127: a new KMeans in self.kmeans, then fit_predict.
FitKMeans ==
    /\ pc = "kmeans"
    /\ log' = Append(log, Invoked("clusterer", -1, Len(embeddings)))
    /\ IF TooFewSamples(Len(embeddings))
       THEN /\ kmeans' = NewKMeans
            /\ Raise("ValueError")
            /\ UNCHANGED cluster_labels
       ELSE \E ok \in BOOLEAN :
              IF ok
              THEN \E labelOf \in [Range(embeddings) -> ClusterIds] :
                     /\ cluster_labels' = [i \in DOMAIN embeddings |-> labelOf[embeddings[i]]]
                     /\ kmeans' = [NewKMeans EXCEPT !.fitted = Len(embeddings)]
                     /\ pc' = "umap"
                     /\ UNCHANGED <<raised, result>>
              ELSE /\ kmeans' = NewKMeans
                   /\ Raise("ClusteringError")
                   /\ UNCHANGED cluster_labels
    /\ UNCHANGED <<handler, notes, embeddings, coords_3d, cluster_names, llm>>
    /\ UNCHANGED <<groq_client, umap_reducer, construction>>
    /\ UNCHANGED <<routeVars, parseVars, concVars>>

\* Lines 131-138: a new UMAP in self.umap_reducer, then fit_transform.
FitUMAP ==
    /\ pc = "umap"
    /\ log' = Append(log, Invoked("projector", -1, Len(embeddings)))
    /\ \E ok \in BOOLEAN :
         IF ok
         THEN \E seed \in CoordSeeds :
                /\ coords_3d' = Layout(Len(embeddings), seed)
                /\ umap_reducer' = [NewUMAP(Len(notes)) EXCEPT !.fitted = Len(embeddings)]
                /\ pc' = "name"
                /\ UNCHANGED <<raised, result>>
         ELSE /\ umap_reducer' = NewUMAP(Len(notes))
              /\ Raise("ProjectionError")
              /\ UNCHANGED coords_3d
    /\ UNCHANGED <<handler, notes, embeddings, cluster_labels, cluster_names, llm>>
    /\ UNCHANGED <<groq_client, kmeans, construction>>
    /\ UNCHANGED <<routeVars, parseVars, concVars>>

\* Line 141: self._name_clusters(cluster_labels, notes); it never raises.
NameStep ==
    /\ pc = "name"
    /\ \E outcomes \in [Range(cluster_labels) -> ServiceAnswers] :
         LET r == NameClusters(groq_client, cluster_labels, notes, outcomes)
         IN /\ cluster_names' = r.names
            /\ log' = Append(log, Invoked("namer", -1, Len(notes))) \o r.calls
            /\ llm' = [id \in {c.id : c \in Range(r.calls)} |-> outcomes[id]]
    /\ pc' = "assemble"
    /\ UNCHANGED <<handler, notes, embeddings, cluster_labels, coords_3d, result, raised>>
    /\ UNCHANGED <<selfVars, routeVars, parseVars, concVars>>

\* Lines 145-164: the nodes and the returned dict.
Assemble ==
    /\ pc = "assemble"
    /\ result' = [nodes |-> BuildNodes(notes, cluster_labels, coords_3d, cluster_names),
                  cluster_names |-> CleanNames(cluster_names)]
    /\ pc' = "done"
    /\ UNCHANGED <<handler, notes, embeddings, cluster_labels, coords_3d,
                   cluster_names, raised, log, llm>>
    /\ UNCHANGED <<selfVars, routeVars, parseVars, concVars>>

\* The frame of a finished call is gone; the instance stays.
ClearFrame ==
    /\ pc' = "idle" /\ handler' = None /\ notes' = <<>> /\ embeddings' = <<>>
    /\ cluster_labels' = <<>> /\ coords_3d' = <<>> /\ cluster_names' = <<>>
    /\ result' = Nil /\ raised' = None /\ log' = <<>> /\ llm' = <<>>

\* The direct caller takes the result or the exception.
Return ==
    /\ pc = "done" /\ handler = "direct"
    /\ ClearFrame
    /\ UNCHANGED <<selfVars, routeVars, parseVars, concVars>>

Init ==
    /\ \E key_present \in BOOLEAN, ctor_ok \in BOOLEAN :
         /\ construction = <<key_present, ctor_ok>>
         /\ groq_client = InitGroq(key_present, ctor_ok)
    /\ kmeans = Nil /\ umap_reducer = Nil
    /\ FrameIdle
    /\ file = [kind |-> "absent", notes |-> <<>>] /\ RouteIdle
    /\ ParseIdle
    /\ ConcIdle

Next ==
    \/ \E ns \in SeqsUpTo(NoteTexts, MaxNotes) : Call(ns)
    \/ EncodeStep
    \/ FitKMeans
    \/ FitUMAP
    \/ NameStep
    \/ Assemble
    \/ Return

Spec == Init /\ [][Next]_vars

\* ------------------------------------------------------------------------
\* What the claims expect, stated apart from the model's own operators
\* ------------------------------------------------------------------------
ExpSpace(c) == c = " " \/ c = "\n" \/ c = "\t" \/ c = "\r"

\* the placeholder "Category {id}" for a cluster id below 10
ExpCategory(id) ==
    <<"C", "a", "t", "e", "g", "o", "r", "y", " ",
      CASE id = 0 -> "0" [] id = 1 -> "1" [] id = 2 -> "2" [] id = 3 -> "3"
        [] id = 4 -> "4" [] id = 5 -> "5" [] id = 6 -> "6" [] id = 7 -> "7"
        [] id = 8 -> "8" [] id = 9 -> "9">>

\* t without its leading and trailing whitespace
ExpTrim(t) ==
    LET solid == {i \in 1 .. Len(t) : ~ExpSpace(t[i])}
    IN IF solid = {} THEN <<>>
       ELSE SubSeq(t, CHOOSE i \in solid : \A j \in solid : i <= j,
                      CHOOSE i \in solid : \A j \in solid : j <= i)

\* t up to its first line feed
ExpFirstLine(t) ==
    LET feeds == {i \in 1 .. Len(t) : t[i] = "\n"}
    IN IF feeds = {} THEN t
       ELSE SubSeq(t, 1, (CHOOSE i \in feeds : \A j \in feeds : i <= j) - 1)

\* where the whitespace-separated tokens of a line start
ExpStarts(line) ==
    {i \in 1 .. Len(line) : ~ExpSpace(line[i]) /\ (i = 1 \/ ExpSpace(line[i - 1]))}

\* the n-th token of a line
ExpToken(line, n) ==
    LET s == CHOOSE i \in ExpStarts(line) :
                 Cardinality({j \in ExpStarts(line) : j < i}) = n - 1
        e == CHOOSE j \in s .. Len(line) :
                 /\ \A k \in s .. j : ~ExpSpace(line[k])
                 /\ (j = Len(line) \/ ExpSpace(line[j + 1]))
    IN SubSeq(line, s, e)

\* the first two tokens of a line joined by one space; one token as it is;
\* nothing when there is no token
ExpName(line) ==
    LET k == Cardinality(ExpStarts(line))
    IN IF k = 0 THEN <<>>
       ELSE IF k = 1 THEN ExpToken(line, 1)
       ELSE ExpToken(line, 1) \o <<" ">> \o ExpToken(line, 2)

\* a text in which no token can be found
ExpBlank(t) == \A i \in 1 .. Len(t) : ExpSpace(t[i])

HasRun(op) == \E i \in DOMAIN log : log[i].op = op
Returned == pc = "done" /\ raised = None /\ result # Nil
StageErrors == {"EmbeddingError", "ClusteringError", "ProjectionError"}

\* ------------------------------------------------------------------------
\* Claims checked under Spec
\* ------------------------------------------------------------------------

\* C1 (as claimed): for every note list of length N >= 1, also N below the
\* cluster count 5, a finished process_notes call in which no stage failed
\* numerically returned N nodes whose ids are 0..N-1 in note order, node i
\* carrying label notes[i].
C1_NodesForEveryList ==
    (pc = "done" /\ Len(notes) >= 1 /\ raised \notin StageErrors)
    => /\ raised = None
       /\ result # Nil
       /\ Len(result.nodes) = Len(notes)
       /\ \A i \in 1 .. Len(notes) :
            result.nodes[i].id = i - 1 /\ result.nodes[i].label = notes[i]

\* C2 (as claimed): with fewer notes than the configured cluster count the
\* clustering step does not raise; it gives N assignments with at most N
\* distinct ids, each in [0, k).
C2_FewNotesClustered ==
    (HasRun("clusterer") /\ Len(notes) < n_clusters)
    => /\ raised = None
       /\ Len(cluster_labels) = Len(notes)
       /\ Range(cluster_labels) \subseteq 0 .. (n_clusters - 1)
       /\ Cardinality(Range(cluster_labels)) <= Len(notes)

\* C3: in every returned result each node's category is a key of
\* cluster_names and its cluster_label is cluster_names[category], whatever
\* the external calls did.
C3_CategoryIsNamed ==
    Returned =>
        \A i \in DOMAIN result.nodes :
            /\ result.nodes[i].category \in DOMAIN result.cluster_names
            /\ result.nodes[i].cluster_label
                 = result.cluster_names[result.nodes[i].category]

C3_Witness ==
    /\ Returned
    /\ Len(result.nodes) = MaxNotes
    /\ \E a \in DOMAIN llm, b \in DOMAIN llm :
         /\ llm[a].kind = "raise" /\ llm[b].kind = "text"
         /\ \E i \in DOMAIN result.nodes, j \in DOMAIN result.nodes :
              result.nodes[i].category = a /\ result.nodes[j].category = b

\* an external call that gave nothing a name can be parsed from: it raised,
\* returned no choice, no content, or a text without a token
ExpFailed(out) == out.kind # "text" \/ ExpBlank(out.content)

\* C4: once the namer has run with a client, one external call was made per
\* cluster present; exactly the clusters whose call failed carry
\* "Category {id}", every other cluster carries the name parsed from its own
\* response; and nothing was raised by the namer or by the call after it.
C4_FailureIsPerCluster ==
    (groq_client # None /\ HasRun("namer"))
    => /\ raised = None
       /\ pc \in {"assemble", "done"}
       /\ DOMAIN llm = Range(cluster_labels)
       /\ DOMAIN cluster_names = Range(cluster_labels)
       /\ \A id \in DOMAIN llm :
            cluster_names[id]
              = IF ExpFailed(llm[id])
                THEN ExpCategory(id)
                ELSE ExpName(ExpFirstLine(ExpTrim(llm[id].content)))
       /\ pc = "done" => /\ result # Nil
                         /\ result.cluster_names = cluster_names

C4_Witness ==
    /\ Returned
    /\ \E a \in DOMAIN llm, b \in DOMAIN llm :
         /\ llm[a].kind = "raise" /\ llm[b].kind = "text"
         /\ result.cluster_names[a] = ExpCategory(a)
         /\ result.cluster_names[b] = <<"a", " ", "b">>

\* C6: process_notes([]) returns {nodes: [], cluster_names: {}} at once:
\* no component is invoked and no field of the instance changes.
C6_EmptyShortCircuits ==
    [][(pc = "idle" /\ pc' # "idle" /\ notes' = <<>>)
       => /\ pc' = "done"
          /\ raised' = None
          /\ result' = [nodes |-> <<>>, cluster_names |-> [k \in {} |-> <<>>]]
          /\ log' = <<>>
          /\ groq_client' = groq_client
          /\ kmeans' = kmeans
          /\ umap_reducer' = umap_reducer]_vars

C6_Witness ==
    /\ pc = "done" /\ notes = <<>> /\ log = <<>>
    /\ result = [nodes |-> <<>>, cluster_names |-> [k \in {} |-> <<>>]]
    /\ kmeans # Nil /\ kmeans.fitted = MaxNotes
    /\ umap_reducer # Nil /\ umap_reducer.fitted = MaxNotes

\* C7: when the instance was built without GROQ_API_KEY, or Groq() failed,
\* it has no client for all its life; every name the namer gives is
\* "Category {id}" for its own id, the keys are the cluster ids present, and
\* no external call is made.
C7_NoClientAllGeneric ==
    (construction # <<TRUE, TRUE>>)
    => /\ groq_client = None
       /\ ~HasRun("llm")
       /\ HasRun("namer")
            => /\ DOMAIN cluster_names = Range(cluster_labels)
               /\ \A id \in DOMAIN cluster_names : cluster_names[id] = ExpCategory(id)
       /\ Returned
            => /\ DOMAIN result.cluster_names = {result.nodes[i].category : i \in DOMAIN result.nodes}
               /\ \A id \in DOMAIN result.cluster_names :
                    result.cluster_names[id] = ExpCategory(id)

C7_Witness ==
    /\ Returned
    /\ construction = <<TRUE, FALSE>>
    /\ Cardinality(DOMAIN result.cluster_names) = 2
    /\ Len(result.nodes) = MaxNotes

\* C8: a call that raised (embedding, clustering or projection failed) is
\* over, has no result, and never invoked the namer or the external service.
C8_FailurePropagates ==
    (raised # None)
    => /\ pc = "done"
       /\ result = Nil
       /\ cluster_names = <<>>
       /\ ~HasRun("namer")
       /\ ~HasRun("llm")

C8_Witness ==
    /\ pc = "done" /\ raised = "ProjectionError" /\ result = Nil
    /\ groq_client # None
    /\ HasRun("embedder") /\ HasRun("clusterer") /\ HasRun("projector")

\* ------------------------------------------------------------------------
\* Claims checked under SpecParse
\* ------------------------------------------------------------------------

\* C9 (as claimed): the name for a returned text is made of the first two
\* whitespace-separated tokens of the response's first line, joined by one
\* space; with fewer tokens, of the tokens there are.
C9_FirstLineTokens ==
    (ppc = "named" /\ response.kind = "text")
    => category = ExpName(ExpFirstLine(response.content))

\* C9 (amended): the first line is taken after leading and trailing
\* whitespace has been stripped from the response, and a response without
\* any token gives the placeholder "Category {id}".
C9_StrippedFirstLineTokens ==
    (ppc = "named" /\ response.kind = "text")
    => category = IF ExpBlank(response.content)
                  THEN ExpCategory(cluster_id)
                  ELSE ExpName(ExpFirstLine(ExpTrim(response.content)))

C9_Witness ==
    /\ ppc = "named"
    /\ response = [kind |-> "text", content |-> <<"\n", "a", " ", "b">>]
    /\ category = <<"a", " ", "b">>

\* ------------------------------------------------------------------------
\* routes.py: the note store and the three handlers. The handlers are
\* "async def" without an await, so the event loop runs one at a time.
\* ------------------------------------------------------------------------
Absent  == [kind |-> "absent", notes |-> <<>>]     \* no NOTES_FILE
NoKey   == [kind |-> "nokey", notes |-> <<>>]      \* a JSON object without "notes"
Corrupt == [kind |-> "corrupt", notes |-> <<>>]    \* not a JSON object
Json(ns) == [kind |-> "json", notes |-> ns]        \* {"notes": ns}

\* Lines 31-40: load_notes. io_ok: the file, when it exists, can be read.
LoadNotes(f, io_ok) ==
    IF f.kind = "absent" THEN [ok |-> TRUE, notes |-> <<>>]
    ELSE IF ~io_ok \/ f.kind = "corrupt" THEN [ok |-> FALSE, notes |-> <<>>]
    ELSE IF f.kind = "nokey" THEN [ok |-> TRUE, notes |-> <<>>]
    ELSE [ok |-> TRUE, notes |-> f.notes]

\* Lines 43-50: save_notes. The file is opened for writing (truncated) and
\* the list dumped: the open may fail (file untouched) or the write may fail
\* part-way (file left broken).
SaveOutcomes == {"ok", "open_failed", "write_failed"}
SaveNotes(f, ns, outcome) ==
    IF outcome = "ok" THEN Json(ns)
    ELSE IF outcome = "open_failed" THEN f
    ELSE Corrupt

\* A mutant of Extend: the request's notes replace the stored ones.
ExtendReplace(old, new) == new

\* Line 97: existing_notes.extend(request.notes)
Extend(old, new) == old \o new

RouteHandlers == {"process", "get_nodes", "add_notes"}

Ok200(h, body) == [status |-> 200, handler |-> h, body |-> body]
Err500(h) == [status |-> 500, handler |-> h, body |-> Nil]

\* A handler answers without having called process_notes.
AnswerAtOnce(h, answer) ==
    /\ pc' = "responded"
    /\ handler' = h
    /\ http' = answer
    /\ UNCHANGED <<notes, embeddings, cluster_labels, coords_3d, cluster_names,
                   result, raised, log, llm>>
    /\ UNCHANGED selfVars

\* Lines 53-59: POST /process calls process_notes(request.notes).
PostProcess(req) ==
    /\ Enter("process", req)
    /\ request' = req
    /\ UNCHANGED <<file, existing, saved, http, posted>>
    /\ UNCHANGED <<parseVars, concVars>>

\* Lines 68-78: GET /nodes loads the notes; a failed load is an HTTP 500, an
\* empty list is answered at once, otherwise process_notes(notes) is called.
GetNodes(io_ok) ==
    /\ pc = "idle"
    /\ LET loaded == LoadNotes(file, io_ok)
       IN IF ~loaded.ok THEN AnswerAtOnce("get_nodes", Err500("get_nodes"))
          ELSE IF Len(loaded.notes) = 0
               THEN AnswerAtOnce("get_nodes", Ok200("get_nodes", EmptyResult))
               ELSE Enter("get_nodes", loaded.notes) /\ UNCHANGED http
    /\ UNCHANGED <<file, request, existing, saved, posted>>
    /\ UNCHANGED <<parseVars, concVars>>

\* Lines 87-103: POST /notes loads, extends, saves, then calls
\* process_notes(existing_notes). A failed load or save is an HTTP 500.
AddNotes(req, io_ok, outcome) ==
    /\ pc = "idle"
    /\ request' = req
    /\ LET loaded == LoadNotes(file, io_ok)
           existing_notes == Extend(loaded.notes, req)
       IN IF ~loaded.ok
          THEN /\ AnswerAtOnce("add_notes", Err500("add_notes"))
               /\ UNCHANGED <<file, existing, saved, posted>>
          ELSE /\ Len(loaded.notes) + Len(req) <= MaxStore
               /\ existing' = loaded.notes
               /\ file' = SaveNotes(file, existing_notes, outcome)
               /\ IF outcome = "ok"
                  THEN /\ saved' = TRUE
                       /\ posted' = posted \o req
                       /\ Enter("add_notes", existing_notes)
                       /\ UNCHANGED http
                  ELSE /\ AnswerAtOnce("add_notes", Err500("add_notes"))
                       /\ UNCHANGED <<saved, posted>>
    /\ UNCHANGED <<parseVars, concVars>>

\* Lines 60-65, 79-84, 106-113: the handler's answer after process_notes:
\* the result, or HTTP 500 for whatever it raised.
Respond ==
    /\ pc = "done" /\ handler \in RouteHandlers
    /\ pc' = "responded"
    /\ http' = IF raised # None THEN Err500(handler)
               ELSE IF handler = "add_notes"
               THEN Ok200(handler, [message |-> Len(request),
                                    total_notes |-> Len(notes),
                                    nodes |-> result.nodes,
                                    cluster_names |-> result.cluster_names])
               ELSE Ok200(handler, [nodes |-> result.nodes,
                                    cluster_names |-> result.cluster_names])
    /\ UNCHANGED <<handler, notes, embeddings, cluster_labels, coords_3d,
                   cluster_names, result, raised, log, llm>>
    /\ UNCHANGED <<file, request, existing, saved, posted>>
    /\ UNCHANGED <<selfVars, parseVars, concVars>>

\* The answer is sent; the event loop is free for the next request.
NextRequest ==
    /\ pc = "responded"
    /\ ClearFrame
    /\ request' = <<>> /\ existing' = <<>> /\ saved' = FALSE /\ http' = Nil
    /\ UNCHANGED <<file, posted>>
    /\ UNCHANGED <<selfVars, parseVars, concVars>>

\* The server starts without GROQ_API_KEY (the store does not depend on the
\* names) and with any kind of NOTES_FILE.
InitRoutes ==
    /\ construction = <<FALSE, FALSE>>
    /\ groq_client = InitGroq(FALSE, FALSE)
    /\ kmeans = Nil /\ umap_reducer = Nil
    /\ FrameIdle
    /\ file \in {Absent, NoKey, Corrupt, Json(<<>>), Json(<<"n1">>)}
    /\ request = <<>> /\ existing = <<>> /\ saved = FALSE /\ http = Nil
    /\ posted = LoadNotes(file, TRUE).notes
    /\ ParseIdle
    /\ ConcIdle

Requests == SeqsUpTo(NoteTexts, MaxReq)

NextRoutes ==
    \/ \E req \in Requests : PostProcess(req)
    \/ \E io_ok \in BOOLEAN : GetNodes(io_ok)
    \/ \E req \in Requests, io_ok \in BOOLEAN, outcome \in SaveOutcomes :
         AddNotes(req, io_ok, outcome)
    \/ EncodeStep
    \/ FitKMeans
    \/ FitUMAP
    \/ NameStep
    \/ Assemble
    \/ Respond
    \/ NextRequest

SpecRoutes == InitRoutes /\ [][NextRoutes]_vars

\* ------------------------------------------------------------------------
\* Claims checked under SpecRoutes
\* ------------------------------------------------------------------------

\* C10: once POST /notes has loaded and saved, the store is what was stored
\* before followed by the request's notes, and stays so through the rest of
\* the handler, also when process_notes raises and the answer is HTTP 500;
\* the store always holds the notes accepted so far in call order; and only
\* the load-extend-save step of POST /notes changes the store.
C10_StoreIsAppendOnly ==
    /\ [](/\ (handler = "add_notes" /\ saved)
               => file = [kind |-> "json", notes |-> existing \o request]
          /\ (handler = "add_notes" /\ saved /\ pc = "responded" /\ raised # None)
               => http.status = 500
          /\ file.kind = "json" => file.notes = posted)
    /\ [][file' # file => (pc = "idle" /\ handler' = "add_notes")]_vars

C10_Witness ==
    /\ pc = "responded" /\ handler = "add_notes" /\ saved
    /\ raised = "ProjectionError"
    /\ http.status = 500
    /\ Len(existing) >= 2 /\ Len(request) >= 1
    /\ file = [kind |-> "json", notes |-> existing \o request]
    /\ Len(posted) = MaxStore

\* ------------------------------------------------------------------------
\* SpecConc: two threads inside process_notes on the one module-level
\* instance (routes.py line 16). self.kmeans and self.umap_reducer hold
\* references; the objects live in heap. The data of a call is named by its
\* owner <<thread, call number>>: embeddings <<t, n>> are the vectors of
\* call n of thread t, labels <<t, n>> the assignments computed from them.
\* Nothing in GalaxyRenderer takes a lock.
\* ------------------------------------------------------------------------
Threads == {1, 2}
NoData == <<0, 0>>
NoRef == <<"none", 0, 0>>
Ref(class, t, n) == <<class, t, n>>

NewFrame(n) ==
    [call |-> n, embeddings |-> NoData,
     kmeans_used |-> NoRef, cluster_labels |-> NoData,
     umap_used |-> NoRef, coords_3d |-> NoData]

InitConc ==
    /\ construction = <<FALSE, FALSE>>
    /\ groq_client = InitGroq(FALSE, FALSE)
    /\ kmeans = NoRef /\ umap_reducer = NoRef
    /\ FrameIdle
    /\ file = Absent /\ RouteIdle
    /\ ParseIdle
    /\ tpc = [t \in Threads |-> "idle"]
    /\ tloc = [t \in Threads |-> NewFrame(0)]
    /\ heap = [r \in {} |-> NoData]

Goto(t, label) == tpc' = [tpc EXCEPT ![t] = label]

ConcRest == UNCHANGED <<groq_client, construction, frameVars, routeVars, parseVars>>

\* Lines 117-118: thread t enters process_notes with a note list long
\* enough to be clustered.
ConcCall(t) ==
    /\ tpc[t] = "idle"
    /\ tloc[t].call < MaxCalls
    /\ tloc' = [tloc EXCEPT ![t] = NewFrame(tloc[t].call + 1)]
    /\ Goto(t, "encode")
    /\ UNCHANGED <<kmeans, umap_reducer, heap>>
    /\ ConcRest

\* Line 121
ConcEncode(t) ==
    /\ tpc[t] = "encode"
    /\ tloc' = [tloc EXCEPT ![t].embeddings = <<t, tloc[t].call>>]
    /\ Goto(t, "new_kmeans")
    /\ UNCHANGED <<kmeans, umap_reducer, heap>>
    /\ ConcRest

\* Line 124: self.kmeans = KMeans(...)
ConcNewKMeans(t) ==
    /\ tpc[t] = "new_kmeans"
    /\ LET r == Ref("KMeans", t, tloc[t].call)
       IN /\ heap' = [x \in (DOMAIN heap) \cup {r} |-> IF x = r THEN NoData ELSE heap[x]]
          /\ kmeans' = r
    /\ Goto(t, "fit_kmeans")
    /\ UNCHANGED <<umap_reducer, tloc>>
    /\ ConcRest

\* Line 125, first half: self.kmeans is read and that object is fitted on
\* the thread's embeddings (fit stores labels_ in the object).
ConcFitKMeans(t) ==
    /\ tpc[t] = "fit_kmeans"
    /\ tloc' = [tloc EXCEPT ![t].kmeans_used = kmeans]
    /\ heap' = [heap EXCEPT ![kmeans] = tloc[t].embeddings]
    /\ Goto(t, "read_labels")
    /\ UNCHANGED <<kmeans, umap_reducer>>
    /\ ConcRest

\* Line 125, second half: fit_predict returns the object's labels_.
ConcReadLabels(t) ==
    /\ tpc[t] = "read_labels"
    /\ tloc' = [tloc EXCEPT ![t].cluster_labels = heap[tloc[t].kmeans_used]]
    /\ Goto(t, "new_umap")
    /\ UNCHANGED <<kmeans, umap_reducer, heap>>
    /\ ConcRest

\* Lines 132-137: self.umap_reducer = umap.UMAP(...)
ConcNewUMAP(t) ==
    /\ tpc[t] = "new_umap"
    /\ LET r == Ref("UMAP", t, tloc[t].call)
       IN /\ heap' = [x \in (DOMAIN heap) \cup {r} |-> IF x = r THEN NoData ELSE heap[x]]
          /\ umap_reducer' = r
    /\ Goto(t, "fit_umap")
    /\ UNCHANGED <<kmeans, tloc>>
    /\ ConcRest

\* Line 138, first half: self.umap_reducer is read and that object fitted
\* (fit stores embedding_ in the object).
ConcFitUMAP(t) ==
    /\ tpc[t] = "fit_umap"
    /\ tloc' = [tloc EXCEPT ![t].umap_used = umap_reducer]
    /\ heap' = [heap EXCEPT ![umap_reducer] = tloc[t].embeddings]
    /\ Goto(t, "read_coords")
    /\ UNCHANGED <<kmeans, umap_reducer>>
    /\ ConcRest

\* Line 138, second half: fit_transform returns the object's embedding_.
ConcReadCoords(t) ==
    /\ tpc[t] = "read_coords"
    /\ tloc' = [tloc EXCEPT ![t].coords_3d = heap[tloc[t].umap_used]]
    /\ Goto(t, "assemble")
    /\ UNCHANGED <<kmeans, umap_reducer, heap>>
    /\ ConcRest

\* Lines 141-164: names, nodes and the return; the frame keeps what the
\* call used until the thread's next call.
ConcReturn(t) ==
    /\ tpc[t] = "assemble"
    /\ Goto(t, "idle")
    /\ UNCHANGED <<kmeans, umap_reducer, heap, tloc>>
    /\ ConcRest

NextConc ==
    \E t \in Threads :
        \/ ConcCall(t)
        \/ ConcEncode(t)
        \/ ConcNewKMeans(t)
        \/ ConcFitKMeans(t)
        \/ ConcReadLabels(t)
        \/ ConcNewUMAP(t)
        \/ ConcFitUMAP(t)
        \/ ConcReadCoords(t)
        \/ ConcReturn(t)

SpecConc == InitConc /\ [][NextConc]_vars

\* ------------------------------------------------------------------------
\* Claims checked under SpecConc
\* ------------------------------------------------------------------------

\* C5 (as claimed): with two calls running on the same instance, each call
\* fits and reads only the KMeans and UMAP objects it created itself, and
\* its assignments and coordinates are computed from its own embeddings.
C5_CallsUseOwnHandles ==
    \A t \in Threads :
        LET f == tloc[t]
        IN /\ f.kmeans_used \in {NoRef, <<"KMeans", t, f.call>>}
           /\ f.umap_used \in {NoRef, <<"UMAP", t, f.call>>}
           /\ f.cluster_labels \in {NoData, <<t, f.call>>}
           /\ f.coords_3d \in {NoData, <<t, f.call>>}

====
